---- MODULE Spec2Model ----
(***************************************************************************)
(* Model of the Instagram -> YouTube uploader (src/uploader.py).           *)
(*                                                                         *)
(* One process invocation is main(): it calls run_one_upload()             *)
(* UPLOAD_COUNT times.  run_one_upload is cut at its calls to the external *)
(* collaborators (profile listing, download, credential exchange, upload,  *)
(* file move), each of which either returns or raises.  Python indices are *)
(* kept 0-based as in the source; TLA+ sequences are 1-based, so the       *)
(* selected post is posts[index + 1].                                      *)
(*                                                                         *)
(* Writes to state.json and to upload_log.txt are taken to succeed.        *)
(***************************************************************************)
EXTENDS Integers, Sequences, FiniteSets, TLC

\* ---- bounds of the model ----
MaxItems == 3      \* video posts that exist: identifiers 1..MaxItems
MaxStored == 4     \* largest next_index found in state.json at start
MaxCount == 3      \* largest UPLOAD_COUNT
MaxShortLen == 4   \* longest text enumerated character by character
MaxWords == 18     \* most words of a text built from words
MaxLenArg == 4     \* largest small max_len given to _sanitize_text

Items == 1..MaxItems

\* state.json does not exist
Absent == -1

\* run_one_upload has not called load_state
NoState == Absent

None == 0

VARIABLES
    profile,        \* video posts of TARGET_IG_USERNAME (set of identifiers)
    broken,         \* the permanently broken post, if any: [item, kind]
    stateFile,      \* content of state.json: Absent or its next_index
    creds,          \* YT_CLIENT_ID, YT_CLIENT_SECRET, YT_REFRESH_TOKEN all set
    uploads_to_do,  \* main: int(os.getenv("UPLOAD_COUNT", "1"))
    iter,           \* main: iterations of the for loop completed
    pc,             \* position of the process
    posts,          \* run_one_upload: posts
    index,          \* run_one_upload: index
    video_path,     \* run_one_upload: the downloaded file (its post), or None
    downloads,      \* files in downloads/
    uploaded,       \* files in uploaded_videos/
    published,      \* videos inserted on YouTube by this invocation, in order
    runlog,         \* lines appended to upload_log.txt by the current run
    ret,            \* outcome of the last run_one_upload of this invocation
    state0,         \* state.json when the current run started
    saves,          \* save_state calls of the current run
    attempts,       \* the runs of this invocation, one Attempt record each
    state,          \* run_one_upload: state["next_index"], or NoState
    seo_pc,         \* seo_utils: "input", "sanitized" or "generated"
    text,           \* seo_utils: the text given (a sequence of characters)
    max_len,        \* _sanitize_text: max_len
    sanitized,      \* _sanitize_text: the string returned
    title,          \* generate_seo_from_caption: title
    tags            \* generate_seo_from_caption: tags

vars == << profile, broken, stateFile, creds, uploads_to_do, iter, pc, posts,
           index, video_path, downloads, uploaded, published, runlog, ret,
           state0, saves, attempts, state, seo_pc, text, max_len, sanitized,
           title, tags >>

\* the variables of seo_utils
seo == << seo_pc, text, max_len, sanitized, title, tags >>

env == << profile, broken >>
config == << creds, uploads_to_do >>
folders == << downloads, uploaded >>

\* ---- pure helpers ----

Min(S) == CHOOSE x \in S : \A y \in S : x <= y

\* posts_sorted = sorted(posts, key=lambda p: p.date_utc); a post's identifier
\* stands for its date
RECURSIVE SortedSeq(_)
SortedSeq(S) == IF S = {} THEN << >>
                ELSE << Min(S) >> \o SortedSeq(S \ {Min(S)})

get_all_video_posts(p) == SortedSeq(p)

\* what load_state returns for a given state.json
load_state(f) == IF f = Absent THEN 0 ELSE f

\* a slip: a missing state.json is not written
StateAfterLoadNoWrite(f) == f

\* what state.json holds after load_state
StateAfterLoad(f) == IF f = Absent THEN 0 ELSE f

\* what state.json holds after save_state(st)
save_state(st) == st

\* a slip: the stored value indexes the list as it is
SelectIndexNoMod(next_index, n) == next_index

\* index = int(state.get("next_index", 0)) % len(posts)
SelectIndex(next_index, n) == next_index % n

\* a slip: the index is incremented without wrapping around
AdvanceIndexNoWrap(i, n) == i + 1

\* state["next_index"] = (index + 1) % len(posts)
AdvanceIndex(i, n) == (i + 1) % n

\* get_youtube_service raises at once when a credential is missing
CredentialsPresent == creds

\* the record kept of one run_one_upload: what it selected, how it ended, and
\* state.json before and after it
Attempt(i, item, outcome, before, after) ==
    [index |-> i, item |-> item, outcome |-> outcome,
     before |-> before, cursor |-> after]

TypeOK ==
    /\ profile \subseteq Items
    /\ broken \in [item : Items \cup {None}, kind : {"none", "fetch", "publish"}]
    /\ stateFile \in {Absent} \cup Nat
    /\ creds \in BOOLEAN
    /\ uploads_to_do \in 0..MaxCount
    /\ iter \in 0..MaxCount
    /\ pc \in {"idle", "loop", "download", "auth", "upload", "archive",
               "advance", "sleep", "exited", "crashed", "unused"}
    /\ index \in -1..MaxItems
    /\ video_path \in Items \cup {None}
    /\ downloads \subseteq Items
    /\ uploaded \subseteq Items
    /\ saves \in Nat

\* ---- seo_utils: strings are sequences of one-character strings ----

\* the longest title: _sanitize_text(first_line, max_len=70)
TitleMaxLen == 70

\* if len(tags) >= 15: break
MaxTags == 15

\* if len(w) < 3: continue
MinTagLen == 3

\* what \s matches and strip() removes, among the characters of the model
Whitespace == {" ", "\t", "\n", "\r"}

\* where splitlines() splits, among the characters of the model
LineBreaks == {"\n", "\r"}

Letters ==
    << "a", "b", "c", "d", "e", "f", "g", "h", "i", "j", "k", "l", "m", "n",
       "o", "p", "q", "r", "s", "t", "u", "v", "w", "x", "y", "z" >>

Capitals ==
    << "A", "B", "C", "D", "E", "F", "G", "H", "I", "J", "K", "L", "M", "N",
       "O", "P", "Q", "R", "S", "T", "U", "V", "W", "X", "Y", "Z" >>

Digits == {"0", "1", "2", "3", "4", "5", "6", "7", "8", "9"}

Range(f) == { f[i] : i \in DOMAIN f }

Max(S) == CHOOSE x \in S : \A y \in S : y <= x

IsSpace(c) == c \in Whitespace

\* [A-Za-z0-9]
IsAlnum(c) == c \in Range(Letters) \cup Range(Capitals) \cup Digits

\* str.lower() on one character
LowerChar(c) ==
    IF c \in Range(Capitals)
    THEN Letters[CHOOSE i \in DOMAIN Capitals : Capitals[i] = c]
    ELSE c

\* caption.lower()
LowerText(s) == [i \in 1..Len(s) |-> LowerChar(s[i])]

RECURSIVE LStrip(_)
LStrip(s) == IF s # << >> /\ IsSpace(Head(s)) THEN LStrip(Tail(s)) ELSE s

RECURSIVE RStrip(_)
RStrip(s) == IF s # << >> /\ IsSpace(s[Len(s)])
             THEN RStrip(SubSeq(s, 1, Len(s) - 1))
             ELSE s

\* text.strip()
Strip(s) == RStrip(LStrip(s))

\* a slip: whitespace is left as it is
CollapseNothing(s) == s

\* re.sub(r"\s+", " ", text): each run of whitespace, taken from the left,
\* becomes one space
RECURSIVE Collapse(_)
Collapse(s) ==
    LET ws == { i \in 1..Len(s) : IsSpace(s[i]) }
    IN  IF ws = {} THEN s
        ELSE SubSeq(s, 1, Min(ws) - 1) \o << " " >>
                 \o Collapse(LStrip(SubSeq(s, Min(ws), Len(s))))

\* text[:max_len]
Slice(s, n) == SubSeq(s, 1, IF n < Len(s) THEN n ELSE Len(s))

\* a slip: split(" ", 1)[0], the cut is at the first space
SplitHead(s) ==
    LET sp == { i \in 1..Len(s) : s[i] = " " }
    IN  IF sp = {} THEN s ELSE SubSeq(s, 1, Min(sp) - 1)

\* s.rsplit(" ", 1)[0]
RSplitHead(s) ==
    LET sp == { i \in 1..Len(s) : s[i] = " " }
    IN  IF sp = {} THEN s ELSE SubSeq(s, 1, Max(sp) - 1)

_sanitize_text(t, n) ==
    IF t = << >> THEN << >>
    ELSE LET c == Collapse(Strip(t))
         IN  IF Len(c) > n THEN RSplitHead(Slice(c, n)) ELSE c

\* caption.splitlines()[0] if caption.splitlines() else caption
FirstLine(caption) ==
    LET br == { i \in 1..Len(caption) : caption[i] \in LineBreaks }
    IN  IF br = {} THEN caption ELSE SubSeq(caption, 1, Min(br) - 1)

ShortVideo == << "S", "h", "o", "r", "t", " ", "v", "i", "d", "e", "o" >>

\* a slip: no default title
TitleNoDefault(caption) == _sanitize_text(FirstLine(caption), TitleMaxLen)

\* the title of generate_seo_from_caption
Title(caption) ==
    LET t == _sanitize_text(FirstLine(caption), TitleMaxLen)
    IN  IF t = << >> THEN ShortVideo ELSE t

\* re.findall(r"[A-Za-z0-9]+", s) from position i on, after the matches acc:
\* the next match starts at the first letter or digit and ends before the
\* first other character
RECURSIVE FindAllFrom(_, _, _)
FindAllFrom(s, i, acc) ==
    LET starts == { j \in i..Len(s) : IsAlnum(s[j]) }
    IN  IF starts = {} THEN acc
        ELSE LET a == Min(starts)
                 stops == { j \in a..Len(s) : ~IsAlnum(s[j]) }
                 b == IF stops = {} THEN Len(s) + 1 ELSE Min(stops)
             IN  FindAllFrom(s, b, Append(acc, SubSeq(s, a, b - 1)))

FindAll(s) == FindAllFrom(s, 1, << >>)

stopwords ==
    { << "t", "h", "e" >>, << "a", "n", "d" >>, << "a" >>, << "t", "o" >>,
      << "i", "n" >>, << "o", "f" >>, << "f", "o", "r" >>, << "o", "n" >>,
      << "i", "s" >>, << "w", "i", "t", "h" >>, << "t", "h", "i", "s" >>,
      << "t", "h", "a", "t" >>, << "i", "t" >>, << "y", "o", "u" >>,
      << "f", "r", "o", "m" >>, << "a", "r", "e" >>, << "a", "s" >>,
      << "b", "e" >>, << "a", "t" >>, << "b", "y" >>, << "a", "n" >>,
      << "o", "r" >>, << "h", "a", "v", "e" >>, << "w", "a", "s" >>,
      << "b", "u", "t" >>, << "n", "o", "t" >> }

\* w.isdigit()
IsDigit(w) == w # << >> /\ \A i \in 1..Len(w) : w[i] \in Digits

\* a slip: the loop stops one tag late
RECURSIVE TagLoopLate(_, _, _)
TagLoopLate(words, i, tgs) ==
    IF i > Len(words) THEN tgs
    ELSE LET w == words[i]
         IN  IF Len(w) < MinTagLen \/ IsDigit(w) \/ w \in stopwords
             THEN TagLoopLate(words, i + 1, tgs)
             ELSE LET t2 == IF w \notin Range(tgs) THEN Append(tgs, w) ELSE tgs
                  IN  IF Len(t2) > MaxTags THEN t2
                      ELSE TagLoopLate(words, i + 1, t2)

\* for w in words: ... , from the i-th word on, with the tags tgs collected
RECURSIVE TagLoop(_, _, _)
TagLoop(words, i, tgs) ==
    IF i > Len(words) THEN tgs
    ELSE LET w == words[i]
         IN  IF Len(w) < MinTagLen THEN TagLoop(words, i + 1, tgs)
             ELSE IF IsDigit(w) THEN TagLoop(words, i + 1, tgs)
             ELSE IF w \in stopwords THEN TagLoop(words, i + 1, tgs)
             ELSE LET t2 == IF w \notin Range(tgs) THEN Append(tgs, w) ELSE tgs
                  IN  IF Len(t2) >= MaxTags THEN t2
                      ELSE TagLoop(words, i + 1, t2)

\* the tags of generate_seo_from_caption
Tags(caption) == TagLoop(FindAll(LowerText(caption)), 1, << >>)

generate_seo_from_caption(caption) ==
    [title |-> Title(caption), tags |-> Tags(caption)]

\* ---- initial state: before an invocation ----

\* seo_utils is not under study
SeoUnused ==
    /\ seo_pc = "unused"
    /\ text = << >>
    /\ max_len = 0
    /\ sanitized = << >>
    /\ title = << >>
    /\ tags = << >>

Init ==
    /\ profile \in SUBSET Items
    /\ broken \in {[item |-> None, kind |-> "none"]}
                  \cup [item : Items, kind : {"fetch", "publish"}]
    /\ stateFile \in {Absent} \cup (0..MaxStored)
    /\ creds = TRUE
    /\ uploads_to_do = 0
    /\ iter = 0
    /\ pc = "idle"
    /\ posts = << >>
    /\ index = -1
    /\ video_path = None
    /\ downloads = {}
    /\ uploaded = {}
    /\ published = << >>
    /\ runlog = << >>
    /\ ret = "none"
    /\ state0 = stateFile
    /\ saves = 0
    /\ attempts = << >>
    /\ state = NoState
    /\ SeoUnused

\* ---- main ----

\* UPLOAD_COUNT when the variable is not set, and in the scheduled job
DefaultUploadCount == 1

\* the process starts: module-level configuration is read, main enters its
\* loop with UPLOAD_COUNT taken from counts
StartMainWith(counts) ==
    /\ pc = "idle"
    /\ \E k \in counts, c \in BOOLEAN :
          /\ uploads_to_do' = k
          /\ creds' = c
    /\ pc' = "loop"
    /\ UNCHANGED << seo, env, stateFile, state, iter, posts, index,
                    video_path, folders, published, runlog, ret, state0,
                    saves, attempts >>

StartMain == StartMainWith(1..MaxCount)

\* the scheduled job: "we run this job twice per day, with UPLOAD_COUNT=1"
StartScheduled == StartMainWith({DefaultUploadCount})

\* what a return of run_one_upload leaves behind
Return(value, outcome, i, item) ==
    /\ ret' = value
    /\ attempts' = Append(attempts, Attempt(i, item, outcome, state0', stateFile'))
    /\ pc' = "sleep"

\* what an exception leaving run_one_upload (and main) leaves behind
Raise(outcome, i, item) ==
    /\ ret' = "raised"
    /\ attempts' = Append(attempts, Attempt(i, item, outcome, state0', stateFile'))
    /\ pc' = "crashed"

\* run_one_upload up to the selection of the post
RunSelect ==
    /\ pc = "loop"
    /\ iter < uploads_to_do
    /\ posts' = get_all_video_posts(profile)
    /\ state0' = stateFile
    /\ saves' = 0
    /\ video_path' = None
    /\ IF posts' = << >>
       THEN /\ runlog' = << "started", "found", "no_posts" >>
            /\ index' = -1
            /\ state' = NoState
            /\ UNCHANGED stateFile
            /\ Return("False", "no_posts", -1, None)
       ELSE /\ stateFile' = StateAfterLoad(stateFile)
            /\ state' = load_state(stateFile)
            /\ index' = SelectIndex(state', Len(posts'))
            /\ runlog' = << "started", "found", "selected" >>
            /\ pc' = "download"
            /\ UNCHANGED << ret, attempts >>
    /\ UNCHANGED << seo, env, config, iter, folders, published >>

\* Profile.from_username or profile.get_posts raises: nothing catches it
RunListRaises ==
    /\ pc = "loop"
    /\ iter < uploads_to_do
    /\ posts' = << >>
    /\ index' = -1
    /\ state0' = stateFile
    /\ saves' = 0
    /\ video_path' = None
    /\ runlog' = << "started" >>
    /\ state' = NoState
    /\ UNCHANGED << seo, env, config, stateFile, iter, folders, published >>
    /\ Raise("list_raised", -1, None)

Selected == posts[index + 1]

IsBroken(item, kind) == broken.item = item /\ broken.kind = kind

\* download_post_video returns (video_path, caption); then the SEO metadata
\* are generated and logged
DownloadOk ==
    /\ pc = "download"
    /\ ~IsBroken(Selected, "fetch")
    /\ video_path' = Selected
    /\ downloads' = downloads \cup {Selected}
    /\ runlog' = runlog \o << "downloaded", "title", "tags" >>
    /\ pc' = "auth"
    /\ UNCHANGED << seo, env, config, stateFile, state, iter, posts, index,
                    uploaded, published, ret, state0, saves, attempts >>

\* a slip: the except branch returns without advancing the index
DownloadFailsNoAdvance ==
    /\ pc = "download"
    /\ runlog' = Append(runlog, "download_error")
    /\ UNCHANGED << seo, env, config, stateFile, state, iter, posts, index,
                    video_path, folders, published, state0, saves >>
    /\ Return("False", "download_failed", index, Selected)

\* download_post_video raises: skip this post
DownloadFails ==
    /\ pc = "download"
    /\ state' = AdvanceIndex(index, Len(posts))
    /\ stateFile' = save_state(state')
    /\ saves' = saves + 1
    /\ runlog' = runlog \o << "download_error", "advanced" >>
    /\ UNCHANGED << seo, env, config, iter, posts, index, video_path,
                    folders, published, state0 >>
    /\ Return("False", "download_failed", index, Selected)

\* get_youtube_service returns a client
AuthOk ==
    /\ pc = "auth"
    /\ CredentialsPresent
    /\ pc' = "upload"
    /\ UNCHANGED << seo, env, config, stateFile, state, iter, posts, index,
                    video_path, folders, published, runlog, ret, state0,
                    saves, attempts >>

\* get_youtube_service raises RuntimeError: a credential is not set
AuthMissingCredentials ==
    /\ pc = "auth"
    /\ ~CredentialsPresent
    /\ runlog' = Append(runlog, "auth_failed")
    /\ UNCHANGED << seo, env, config, stateFile, state, iter, posts, index,
                    video_path, folders, published, state0, saves >>
    /\ Return("False", "credentials_missing", index, Selected)

\* a variant: a failed credential exchange skips the post
AuthRefreshFailsAdvance ==
    /\ pc = "auth"
    /\ CredentialsPresent
    /\ state' = AdvanceIndex(index, Len(posts))
    /\ stateFile' = save_state(state')
    /\ saves' = saves + 1
    /\ runlog' = Append(runlog, "auth_failed")
    /\ UNCHANGED << seo, env, config, iter, posts, index, video_path,
                    folders, published, state0 >>
    /\ Return("False", "auth_failed", index, Selected)

\* creds.refresh or build raises
AuthRefreshFails ==
    /\ pc = "auth"
    /\ CredentialsPresent
    /\ runlog' = Append(runlog, "auth_failed")
    /\ UNCHANGED << seo, env, config, stateFile, state, iter, posts, index,
                    video_path, folders, published, state0, saves >>
    /\ Return("False", "auth_failed", index, Selected)

\* upload_video_to_youtube returns the video id
UploadOk ==
    /\ pc = "upload"
    /\ ~IsBroken(Selected, "publish")
    /\ published' = Append(published, video_path)
    /\ runlog' = Append(runlog, "uploaded")
    /\ pc' = "archive"
    /\ UNCHANGED << seo, env, config, stateFile, state, iter, posts, index,
                    video_path, folders, ret, state0, saves, attempts >>

\* a variant: the except branch skips the post as a failed download does
UploadFailsAdvance ==
    /\ pc = "upload"
    /\ state' = AdvanceIndex(index, Len(posts))
    /\ stateFile' = save_state(state')
    /\ saves' = saves + 1
    /\ runlog' = Append(runlog, "upload_failed")
    /\ UNCHANGED << seo, env, config, iter, posts, index, video_path,
                    folders, published, state0 >>
    /\ Return("False", "upload_failed", index, Selected)

\* a slip: the except branch has no return and the run goes on to the move
UploadFailsFallsThrough ==
    /\ pc = "upload"
    /\ runlog' = Append(runlog, "upload_failed")
    /\ pc' = "archive"
    /\ UNCHANGED << seo, env, config, stateFile, state, iter, posts, index,
                    video_path, folders, published, ret, state0, saves,
                    attempts >>

\* upload_video_to_youtube raises
UploadFails ==
    /\ pc = "upload"
    /\ runlog' = Append(runlog, "upload_failed")
    /\ UNCHANGED << seo, env, config, stateFile, state, iter, posts, index,
                    video_path, folders, published, state0, saves >>
    /\ Return("False", "upload_failed", index, Selected)

\* the file is moved to uploaded_videos/
ArchiveOk ==
    /\ pc = "archive"
    /\ downloads' = downloads \ {video_path}
    /\ uploaded' = uploaded \cup {video_path}
    /\ runlog' = Append(runlog, "moved")
    /\ pc' = "advance"
    /\ UNCHANGED << seo, env, config, stateFile, state, iter, posts, index,
                    video_path, published, ret, state0, saves, attempts >>

\* mkdir or shutil.move raises: no handler in run_one_upload or main
ArchiveRaises ==
    /\ pc = "archive"
    /\ UNCHANGED << seo, env, config, stateFile, state, iter, posts, index,
                    video_path, folders, published, runlog, state0, saves >>
    /\ Raise("archive_raised", index, Selected)

\* the index is advanced and saved; the run returns True
Advance ==
    /\ pc = "advance"
    /\ state' = AdvanceIndex(index, Len(posts))
    /\ stateFile' = save_state(state')
    /\ saves' = saves + 1
    /\ runlog' = runlog \o << "updated", "completed" >>
    /\ UNCHANGED << seo, env, config, iter, posts, index, video_path,
                    folders, published, state0 >>
    /\ Return("True", "success", index, Selected)

\* time.sleep(5), then the next iteration of the for loop
Sleep ==
    /\ pc = "sleep"
    /\ iter' = iter + 1
    /\ pc' = "loop"
    /\ UNCHANGED << seo, env, config, stateFile, state, posts, index,
                    video_path, folders, published, runlog, ret, state0,
                    saves, attempts >>

\* the for loop is exhausted: main returns
MainExit ==
    /\ pc = "loop"
    /\ iter = uploads_to_do
    /\ pc' = "exited"
    /\ UNCHANGED << seo, env, config, stateFile, state, iter, posts, index,
                    video_path, folders, published, runlog, ret, state0,
                    saves, attempts >>

\* the process is gone, by return of main or by an uncaught exception: its
\* variables and its working directory go with it, state.json is what the
\* next invocation finds
ProcessEnds ==
    /\ pc \in {"exited", "crashed"}
    /\ pc' = "idle"
    /\ uploads_to_do' = 0
    /\ creds' = TRUE
    /\ iter' = 0
    /\ posts' = << >>
    /\ index' = -1
    /\ video_path' = None
    /\ downloads' = {}
    /\ uploaded' = {}
    /\ published' = << >>
    /\ runlog' = << >>
    /\ ret' = "none"
    /\ state0' = stateFile
    /\ saves' = 0
    /\ attempts' = << >>
    /\ state' = NoState
    /\ UNCHANGED << seo, env, stateFile >>

\* ---- environment, between invocations ----

\* posts are added to or removed from the profile; state.json is edited,
\* reset or deleted
EnvChange ==
    /\ pc = "idle"
    /\ profile' \in SUBSET Items
    /\ stateFile' \in {Absent} \cup (0..MaxStored)
    /\ state0' = stateFile'
    /\ UNCHANGED << seo, broken, config, state, iter, pc, posts, index,
                    video_path, folders, published, runlog, ret, saves,
                    attempts >>

Run == \/ RunSelect \/ RunListRaises
       \/ DownloadOk \/ DownloadFails
       \/ AuthOk \/ AuthMissingCredentials \/ AuthRefreshFails
       \/ UploadOk \/ UploadFails
       \/ ArchiveOk \/ ArchiveRaises
       \/ Advance

Main == StartMain \/ Run \/ Sleep \/ MainExit \/ ProcessEnds

Next == Main \/ EnvChange

Spec == Init /\ [][Next]_vars

Scheduled == StartScheduled \/ Run \/ Sleep \/ MainExit \/ ProcessEnds

\* The scheduled job, run again and again on a profile and a state.json that
\* nobody edits in between.  The scheduler keeps starting the job and a
\* started process keeps running (WF on Scheduled); the profile listing does
\* not fail forever (SF on RunSelect).
FairSpec ==
    Init /\ [][Scheduled]_vars /\ WF_vars(Scheduled) /\ SF_vars(RunSelect)

\* ---- seo_utils under study: texts in, title, tags and sanitized text out ----

\* the variables of uploader
uploader == << profile, broken, stateFile, creds, uploads_to_do, iter, pc,
               posts, index, video_path, downloads, uploaded, published,
               runlog, ret, state0, saves, attempts, state >>

\* uploader is not under study: nothing is scheduled
UploaderUnused ==
    /\ profile = {}
    /\ broken = [item |-> None, kind |-> "none"]
    /\ stateFile = Absent
    /\ creds = TRUE
    /\ uploads_to_do = 0
    /\ iter = 0
    /\ pc = "unused"
    /\ posts = << >>
    /\ index = -1
    /\ video_path = None
    /\ downloads = {}
    /\ uploaded = {}
    /\ published = << >>
    /\ runlog = << >>
    /\ ret = "none"
    /\ state0 = Absent
    /\ saves = 0
    /\ attempts = << >>
    /\ state = NoState

\* every text of at most MaxShortLen characters over these
ShortAlphabet == {"a", "B", "1", " ", "\n", "\t"}

ShortTexts == UNION { [1..n -> ShortAlphabet] : n \in 0..MaxShortLen }

WordLetters == << "c", "a", "t", "s" >>

\* distinct three-letter words, none a stopword: Word(0) = "ccc", ...
Word(i) == << WordLetters[((i \div 16) % 4) + 1],
              WordLetters[((i \div 4) % 4) + 1],
              WordLetters[(i % 4) + 1] >>

RECURSIVE JoinWith(_, _)
JoinWith(ws, sep) ==
    IF ws = << >> THEN << >>
    ELSE IF Len(ws) = 1 THEN ws[1]
    ELSE ws[1] \o sep \o JoinWith(Tail(ws), sep)

\* what separates the words of a built text
Separators == { << " " >>, << ",", " " >>, << "\n" >>, << " ", "\t", " " >> }

\* a token put among the words: none, a stopword, a number, a short word, a
\* word seen before in capitals and as it was
Extras == { << >>, << "a", "n", "d" >>, << "1", "2", "3" >>, << "a", "t" >>,
            << "C", "C", "C" >>, << "c", "c", "c" >> }

\* the first m words, with the token extra after the first p halves of them
WordsWith(m, p, extra) ==
    LET ws == [i \in 1..m |-> Word(i - 1)]
    IN  IF extra = << >> THEN ws
        ELSE SubSeq(ws, 1, (p * m) \div 2) \o << extra >>
                 \o SubSeq(ws, (p * m) \div 2 + 1, m)

\* the token comes first, in the middle or last
WordTexts ==
    { JoinWith(WordsWith(m, p, extra), sep) :
        m \in 0..MaxWords, p \in {0, 1, 2}, extra \in Extras,
        sep \in Separators }

\* "Cats and cats and DOGS"
CatsAndDogs ==
    << "C", "a", "t", "s", " ", "a", "n", "d", " ", "c", "a", "t", "s", " ",
       "a", "n", "d", " ", "D", "O", "G", "S" >>

\* a caption of 30 distinct words
ThirtyWords == JoinWith([i \in 1..30 |-> Word(i - 1)], << " " >>)

Texts == ShortTexts \cup WordTexts \cup {CatsAndDogs, ThirtyWords}

MaxLens == (1..MaxLenArg) \cup {TitleMaxLen}

SeoInit ==
    /\ UploaderUnused
    /\ seo_pc = "input"
    /\ text \in Texts
    /\ max_len = 0
    /\ sanitized = << >>
    /\ title = << >>
    /\ tags = << >>

\* a call of _sanitize_text(text, max_len)
Sanitize ==
    /\ seo_pc = "input"
    /\ \E n \in MaxLens :
           /\ max_len' = n
           /\ sanitized' = _sanitize_text(text, n)
    /\ seo_pc' = "sanitized"
    /\ UNCHANGED << uploader, text, title, tags >>

\* a call of generate_seo_from_caption(text)
Generate ==
    /\ seo_pc = "input"
    /\ title' = generate_seo_from_caption(text).title
    /\ tags' = generate_seo_from_caption(text).tags
    /\ seo_pc' = "generated"
    /\ UNCHANGED << uploader, text, max_len, sanitized >>

SeoNext == Sanitize \/ Generate

SeoSpec == SeoInit /\ [][SeoNext]_vars

\* ---- what a finished run shows ----

Logged(tag) == \E i \in 1..Len(runlog) : runlog[i] = tag

LastAttempt == attempts[Len(attempts)]

\* the run just finished with this outcome (its variables are still in place)
Ended(outcome) ==
    /\ pc \in {"sleep", "crashed"}
    /\ Len(attempts) > 0
    /\ LastAttempt.outcome = outcome

\* runs of this invocation in which a video was inserted on YouTube
Publishes ==
    Cardinality({ i \in 1..Len(attempts) :
                    attempts[i].outcome \in {"success", "archive_raised"} })

\* the run made no upload request and moved no file
NoPublishNoArchive ==
    /\ Len(published) = Publishes
    /\ ~Logged("uploaded")
    /\ ~Logged("upload_failed")
    /\ ~Logged("moved")

HandledFailures ==
    {"download_failed", "credentials_missing", "auth_failed", "upload_failed"}

\* ---- C1 ----

\* C1 as stated: every run that selected a post and returned, with success or
\* after a handled failure, saved the cursor exactly once, as
\* (index + 1) mod len(posts).
C1_EveryAttemptAdvancesOnce ==
    (pc = "sleep" /\ LastAttempt.outcome \in HandledFailures \cup {"success"})
        => /\ saves = 1
           /\ stateFile = AdvanceIndex(index, Len(posts))

\* C1 (amended): a run that selected a post and ended in success or in a
\* failed download saved the cursor exactly once, as (index + 1) mod
\* len(posts); a run that ended in a failed credential exchange or a failed
\* upload did not save it: state.json holds what load_state returned.
C1_AdvanceOnceOnSuccessOrFetchFailure ==
    pc = "sleep" =>
        /\ LastAttempt.outcome \in {"success", "download_failed"}
              => /\ saves = 1
                 /\ stateFile = AdvanceIndex(index, Len(posts))
        /\ LastAttempt.outcome \in HandledFailures \ {"download_failed"}
              => /\ saves = 0
                 /\ stateFile = load_state(state0)

C1_Witness ==
    /\ pc = "sleep"
    /\ Len(attempts) = 3
    /\ attempts[1].outcome = "success"
    /\ attempts[2].outcome = "upload_failed"
    /\ attempts[3].outcome = "download_failed"
    /\ saves = 1
    /\ stateFile = AdvanceIndex(index, Len(posts))

\* ---- C2 ----

\* C2: when the download of the selected post fails, the run logs the error,
\* saves the cursor as (index + 1) mod len(posts), makes no upload request and
\* moves no file, and returns False.
C2_FetchFailureSkips ==
    Ended("download_failed") =>
        /\ pc = "sleep"
        /\ ret = "False"
        /\ Logged("download_error")
        /\ stateFile = AdvanceIndex(index, Len(posts))
        /\ video_path = None
        /\ NoPublishNoArchive

C2_Witness ==
    /\ Ended("download_failed")
    /\ Len(posts) = 3
    /\ index = 1
    /\ stateFile = 2

\* ---- C3 ----

\* C3 as stated: when the upload of a downloaded post fails, the failure is
\* reported, the cursor is saved as (index + 1) mod len(posts), and the file is
\* not moved to uploaded_videos.
C3_PublishFailureAdvances ==
    Ended("upload_failed") =>
        /\ ret = "False"
        /\ Logged("upload_failed")
        /\ stateFile = AdvanceIndex(index, Len(posts))
        /\ ~Logged("moved")
        /\ video_path \in downloads

\* C3 (amended): when the upload of a downloaded post fails, the failure is
\* reported (logged, the run returns False), the cursor is not saved:
\* state.json holds what load_state returned, so the same post is selected
\* again; and the file is not moved to uploaded_videos, it stays in downloads.
C3_PublishFailureKeepsCursor ==
    Ended("upload_failed") =>
        /\ pc = "sleep"
        /\ ret = "False"
        /\ Logged("upload_failed")
        /\ saves = 0
        /\ stateFile = load_state(state0)
        /\ SelectIndex(stateFile, Len(posts)) = index
        /\ ~Logged("moved")
        /\ video_path \in downloads
        /\ Len(published) = Publishes

C3_Witness ==
    /\ Ended("upload_failed")
    /\ Len(posts) = 3
    /\ index = 1
    /\ stateFile = 1
    /\ downloads = {posts[2]}

\* ---- C4 ----

\* the post at index i was selected and is the permanently broken one
BrokenSelected(i, kind) ==
    /\ pc = "download"
    /\ index = i
    /\ IsBroken(Selected, kind)

\* the post that follows index i is selected
FollowerSelected(i) ==
    /\ pc = "download"
    /\ index = AdvanceIndex(i, Len(posts))

\* C4 as stated: over repeated runs on a fixed list, once a post whose
\* download always fails is selected, the post that follows it is eventually
\* selected; and so for a post whose upload always fails, in the runs where
\* uploads keep being attempted.
C4_BrokenItemNeverStalls ==
    \A i \in 0..(MaxItems - 1) :
        /\ BrokenSelected(i, "fetch") ~> FollowerSelected(i)
        /\ []<>(pc = "upload")
              => (BrokenSelected(i, "publish") ~> FollowerSelected(i))

\* C4 (amended): over repeated runs on a fixed list, once a post whose
\* download always fails is selected, the cursor moves past it and the post
\* that follows it is eventually selected; a run that has downloaded a post
\* whose upload always fails leaves the cursor where it is, so that post is
\* passed only by a run in which its download fails.
C4_FetchBrokenItemIsPassed ==
    /\ \A i \in 0..(MaxItems - 1) :
           BrokenSelected(i, "fetch") ~> FollowerSelected(i)
    /\ [][(pc \in {"auth", "upload"} /\ IsBroken(Selected, "publish"))
              => stateFile' = stateFile]_vars

C4_Witness ==
    /\ Ended("download_failed")
    /\ Len(posts) = 3
    /\ index = 1
    /\ IsBroken(Selected, "fetch")
    /\ stateFile = 2

\* ---- C5 ----

\* C5: when moving the published file to uploaded_videos fails, the run does
\* not abort: it goes on to save the cursor as (index + 1) mod len(posts) and
\* returns, so the next run does not select the published post again.
C5_ArchiveFailureNonFatal ==
    (Len(attempts) > 0 /\ LastAttempt.outcome = "archive_raised") =>
        /\ pc # "crashed"
        /\ saves = 1
        /\ stateFile = AdvanceIndex(index, Len(posts))

\* ---- C6 ----

\* C6: when get_youtube_service raises (a credential is missing, or the
\* exchange fails), the run is reported as failed and returns False without
\* saving the cursor: state.json holds the value the run loaded, and no upload
\* request is made and no file is moved.
C6_AuthFailureKeepsCursor ==
    (Ended("auth_failed") \/ Ended("credentials_missing")) =>
        /\ pc = "sleep"
        /\ ret = "False"
        /\ Logged("auth_failed")
        /\ saves = 0
        /\ stateFile = load_state(state0)
        /\ SelectIndex(stateFile, Len(posts)) = index
        /\ NoPublishNoArchive

C6_Witness ==
    /\ Ended("auth_failed")
    /\ Len(posts) = 3
    /\ index = 1
    /\ state0 = 1
    /\ stateFile = 1
    /\ video_path = posts[2]

\* ---- C7 ----

\* C7: three consecutive runs on the list [A, B, C] with the cursor at 0:
\* run 1 selects A and, succeeding, leaves the cursor at 1; run 2 then selects
\* B and, its download failing, leaves the cursor at 2 with nothing published;
\* run 3 then selects C and, succeeding, leaves the cursor at 0.
C7_ThreeRunScenario ==
    (Len(posts) = 3 /\ Len(attempts) >= 1 /\ load_state(attempts[1].before) = 0) =>
        /\ attempts[1].item = posts[1]
        /\ attempts[1].outcome = "success" =>
              /\ attempts[1].cursor = 1
              /\ Len(attempts) >= 2 =>
                    /\ attempts[2].item = posts[2]
                    /\ attempts[2].outcome = "download_failed" =>
                          /\ attempts[2].cursor = 2
                          /\ (Len(attempts) = 2 /\ pc = "sleep") =>
                                published = << posts[1] >>
                          /\ Len(attempts) >= 3 =>
                                /\ attempts[3].item = posts[3]
                                /\ attempts[3].outcome = "success" =>
                                      /\ attempts[3].cursor = 0
                                      /\ (Len(attempts) = 3 /\ pc = "sleep") =>
                                            /\ stateFile = 0
                                            /\ published = << posts[1], posts[3] >>

C7_Witness ==
    /\ pc = "sleep"
    /\ posts = << 1, 2, 3 >>
    /\ Len(attempts) = 3
    /\ attempts[1].before = 0
    /\ attempts[1].outcome = "success"
    /\ attempts[2].outcome = "download_failed"
    /\ attempts[3].outcome = "success"
    /\ stateFile = 0

\* ---- C8 ----

\* a post has been selected and the run is still going
InRun == pc \in {"download", "auth", "upload", "archive", "advance"}

\* C8: for every stored next_index >= 0 and every non-empty list, also one
\* shorter than the stored value, the selected index is
\* next_index mod len(posts), within 0 <= index < len(posts), and the selected
\* post is a post of the profile.
C8_SelectSelfHeals ==
    InRun =>
        /\ Len(posts) > 0
        /\ index = load_state(state0) % Len(posts)
        /\ 0 <= index
        /\ index < Len(posts)
        /\ Selected \in profile

C8_Witness ==
    /\ pc = "download"
    /\ state0 = 4
    /\ Len(posts) = 2
    /\ index = 0

\* ---- C9 ----

\* C9: a run in which download, upload and move all succeed saves the cursor
\* as (index + 1) mod len(posts) and returns True; after the last post of the
\* list the cursor is 0.
C9_SuccessAdvancesAndWraps ==
    Ended("success") =>
        /\ pc = "sleep"
        /\ ret = "True"
        /\ saves = 1
        /\ stateFile = (index + 1) % Len(posts)
        /\ stateFile < Len(posts)
        /\ index = Len(posts) - 1 => stateFile = 0
        /\ video_path \in uploaded

C9_Witness ==
    /\ Ended("success")
    /\ Len(posts) = 3
    /\ state0 = 2
    /\ index = 2
    /\ stateFile = 0

\* ---- C10 ----

\* C10: when a YouTube credential is missing, the run aborts before it
\* changes anything: nothing is downloaded, and state.json is neither created
\* nor changed.
C10_MissingCredentialsAbortEarly ==
    ~CredentialsPresent =>
        /\ downloads = {}
        /\ video_path = None
        /\ saves = 0
        /\ stateFile = state0

\* ---- C11 ----

\* C11: when the profile has no video post, the invocation stops there:
\* nothing is downloaded, uploaded or moved, state.json is left as it was, and
\* no further run of the same invocation is started.
C11_EmptyListIsFatal ==
    (Len(attempts) >= 1 /\ attempts[1].outcome = "no_posts") =>
        /\ Len(attempts) = 1
        /\ pc \in {"sleep", "loop", "exited", "crashed"}
        /\ iter < uploads_to_do => pc # "loop"
        /\ stateFile = attempts[1].before
        /\ downloads = {}
        /\ uploaded = {}
        /\ published = << >>

\* ---- C12 ----

AllSucceeded == \A j \in 1..Len(attempts) : attempts[j].outcome = "success"

\* C12: an invocation with UPLOAD_COUNT = k has made exactly k runs when it
\* ends, one after the other, however the earlier ones ended; when all k
\* succeed on a list of n posts with the cursor at c, the posts at indices
\* c, c+1, ..., c+k-1 (mod n) are published in that order and the cursor ends
\* at (c + k) mod n.
C12_ExactlyKAttempts ==
    /\ Len(attempts) <= uploads_to_do
    /\ pc \in {"exited", "crashed"} =>
          /\ Len(attempts) = uploads_to_do
          /\ AllSucceeded =>
                LET n == Len(posts)
                    c == load_state(attempts[1].before) % n
                IN  /\ Len(published) = uploads_to_do
                    /\ \A j \in 1..uploads_to_do :
                          /\ attempts[j].index = (c + j - 1) % n
                          /\ published[j] = posts[((c + j - 1) % n) + 1]
                    /\ stateFile = (c + uploads_to_do) % n

\* ---- C13 ----

\* load_state has just returned: nothing else has written state.json yet
JustLoaded == pc = "download"

\* C13: on an absent state.json load_state returns next_index 0 and has
\* written it, so that another load_state returns the same; on a present
\* state.json it returns the stored value and leaves the file as it was.
C13_LoadStateInitializes ==
    JustLoaded =>
        /\ state0 = Absent =>
              /\ state = 0
              /\ stateFile = 0
        /\ state0 # Absent =>
              /\ state = state0
              /\ stateFile = state0
        /\ load_state(stateFile) = state
        /\ StateAfterLoad(stateFile) = stateFile
        /\ saves = 0

C13_Witness ==
    /\ JustLoaded
    /\ state0 = Absent
    /\ stateFile = 0
    /\ state = 0

\* ---- C14 ----

\* two whitespace characters next to each other
HasWhitespaceRun(s) ==
    \E i \in 1..(Len(s) - 1) : IsSpace(s[i]) /\ IsSpace(s[i + 1])

\* C14: for every text and every max_len > 0 the result of _sanitize_text is
\* at most max_len characters long, holds no run of two or more whitespace
\* characters, and is empty when the text is empty.
C14_SanitizeBounded ==
    seo_pc = "sanitized" =>
        /\ Len(sanitized) <= max_len
        /\ ~HasWhitespaceRun(sanitized)
        /\ text = << >> => sanitized = << >>

C14_Witness ==
    /\ seo_pc = "sanitized"
    /\ max_len > 0
    /\ HasWhitespaceRun(text)
    /\ Len(text) > max_len
    /\ sanitized # << >>

\* ---- C15 ----

\* the maximal runs of s of characters of the set cs, in reading order
Runs(s, cs) ==
    LET starts == SortedSeq({ i \in 1..Len(s) :
                                /\ s[i] \in cs
                                /\ i = 1 \/ s[i - 1] \notin cs })
        stops == SortedSeq({ i \in 1..Len(s) :
                               /\ s[i] \in cs
                               /\ i = Len(s) \/ s[i + 1] \notin cs })
    IN  [k \in 1..Len(starts) |-> SubSeq(s, starts[k], stops[k])]

\* the reference sequence: the lowercase maximal alphanumeric runs in reading
\* order, without the short, the numeric and the stopwords, first occurrences
\* only
Reference(caption) ==
    LET runs == Runs(caption, { c \in Range(caption) : IsAlnum(c) })
        toks == [k \in 1..Len(runs) |-> LowerText(runs[k])]
        keep == { k \in 1..Len(toks) :
                    /\ Len(toks[k]) >= MinTagLen
                    /\ ~IsDigit(toks[k])
                    /\ toks[k] \notin stopwords
                    /\ \A j \in 1..(k - 1) : toks[j] # toks[k] }
        order == SortedSeq(keep)
    IN  [i \in 1..Len(order) |-> toks[order[i]]]

\* C15: the tags of generate_seo_from_caption are the first 15 entries (all,
\* if fewer) of the reference sequence of the caption; 30 distinct qualifying
\* words give the first 15 of them, and "Cats and cats and DOGS" gives
\* ["cats", "dogs"].
C15_TagsAreFirstFifteen ==
    seo_pc = "generated" =>
        LET ref == Reference(text)
        IN  /\ tags = SubSeq(ref, 1, Min({MaxTags, Len(ref)}))
            /\ text = CatsAndDogs =>
                  tags = << << "c", "a", "t", "s" >>,
                            << "d", "o", "g", "s" >> >>
            /\ text = ThirtyWords =>
                  tags = [i \in 1..MaxTags |-> Word(i - 1)]

C15_Witness ==
    /\ seo_pc = "generated"
    /\ Len(Reference(text)) > MaxTags
    /\ Len(tags) = MaxTags
    /\ text # ThirtyWords

\* ---- C16 ----

\* no character that is not whitespace
Blank(s) == \A i \in 1..Len(s) : IsSpace(s[i])

\* C16: the title of generate_seo_from_caption is not empty and at most 70
\* characters long: it is the sanitized first line of the caption, or
\* "Short video" when the caption is empty or its first line is blank.
C16_TitleNonEmptyBounded ==
    seo_pc = "generated" =>
        /\ title # << >>
        /\ Len(title) <= TitleMaxLen
        /\ IF Blank(FirstLine(text))
           THEN title = ShortVideo
           ELSE title = _sanitize_text(FirstLine(text), TitleMaxLen)

C16_Witness ==
    /\ seo_pc = "generated"
    /\ text # << >>
    /\ Blank(FirstLine(text))
    /\ tags # << >>
    /\ title = ShortVideo

\* ---- C17 ----

\* the words of a text: its maximal runs without whitespace
WordsOf(s) == Runs(s, Range(s) \ Whitespace)

\* the trimmed, whitespace-collapsed text: its words, one space between them
Collapsed(s) == JoinWith(WordsOf(s), << " " >>)

\* the spaces among the first n characters of s
SpacesIn(s, n) == { i \in 1..Min({n, Len(s)}) : s[i] = " " }

\* C17: when the trimmed, collapsed text is longer than max_len the result
\* is its max_len-character prefix cut back to the last space of the prefix,
\* which is a sequence of whole words of the text, or the prefix itself when
\* it holds no space; a collapsed text that is not longer is the result.
C17_TruncatesAtWordBoundary ==
    seo_pc = "sanitized" =>
        LET c == Collapsed(text)
            sp == SpacesIn(c, max_len)
        IN  IF Len(c) <= max_len THEN sanitized = c
            ELSE IF sp = {} THEN sanitized = SubSeq(c, 1, max_len)
            ELSE /\ sanitized = SubSeq(c, 1, Max(sp) - 1)
                 /\ \E k \in 1..Len(WordsOf(text)) :
                        sanitized = JoinWith(SubSeq(WordsOf(text), 1, k),
                                             << " " >>)

C17_Witness ==
    /\ seo_pc = "sanitized"
    /\ Len(Collapsed(text)) > max_len
    /\ Cardinality(SpacesIn(Collapsed(text), max_len)) >= 2
    /\ Len(WordsOf(sanitized)) >= 2
    /\ HasWhitespaceRun(text)

\* ---- C18 ----

\* position of the first log line tag in the run's log, 0 if there is none
LogPos(tag) ==
    IF Logged(tag) THEN Min({ i \in 1..Len(runlog) : runlog[i] = tag }) ELSE 0

\* tag a was logged, and before tag b
LoggedBefore(a, b) == Logged(a) /\ LogPos(a) < LogPos(b)

\* upload requests of the current run
UploadRequests ==
    Cardinality({ i \in 1..Len(runlog) :
                    runlog[i] \in {"uploaded", "upload_failed"} })

\* C18: within a run the phases come in the order SELECT, FETCH,
\* GENERATE_SEO, PUBLISH, ARCHIVE, ADVANCE: an upload is requested only after
\* the selected post was downloaded, the file is moved only after its upload
\* succeeded, on the success path the cursor is saved only after the move,
\* and a run requests at most one upload.
C18_PhaseOrder ==
    /\ pc \in {"auth", "upload", "archive", "advance"} =>
          /\ LoggedBefore("selected", "downloaded")
          /\ LoggedBefore("downloaded", "title")
          /\ video_path = Selected
    /\ pc \in {"auth", "upload"} => video_path \in downloads
    /\ (Logged("uploaded") \/ Logged("upload_failed")) =>
          /\ LoggedBefore("title", "uploaded")
                \/ LoggedBefore("title", "upload_failed")
          /\ ~Logged("download_error")
    /\ Logged("moved") =>
          /\ LoggedBefore("uploaded", "moved")
          /\ video_path \in uploaded
    /\ Logged("updated") =>
          /\ LoggedBefore("moved", "updated")
          /\ LoggedBefore("updated", "completed")
    /\ Logged("advanced") => LoggedBefore("download_error", "advanced")
    /\ pc \in {"download", "auth", "upload", "archive", "advance"} => saves = 0
    /\ UploadRequests <= 1
    /\ Len(published) <= Publishes + 1

C18_Witness ==
    /\ Ended("success")
    /\ runlog = << "started", "found", "selected", "downloaded", "title",
                   "tags", "uploaded", "moved", "updated", "completed" >>
    /\ saves = 1

\* ---- C19 ----

\* C19: the cursor in state.json is never negative, and whatever value was
\* stored before, every value a run has written satisfies
\* 0 <= next_index < len(posts) for the list that run saw.
C19_CursorInRange ==
    /\ stateFile # Absent => stateFile >= 0
    /\ (InRun \/ pc = "sleep") /\ Len(posts) > 0 /\ state0 = Absent =>
          /\ stateFile >= 0
          /\ stateFile < Len(posts)
    /\ saves >= 1 =>
          /\ stateFile >= 0
          /\ stateFile < Len(posts)
          /\ stateFile = state
    /\ \A j \in 1..Len(attempts) :
          attempts[j].outcome \in {"success", "download_failed"} =>
              /\ attempts[j].cursor >= 0
              /\ attempts[j].cursor < Len(get_all_video_posts(profile))

C19_Witness ==
    /\ Ended("download_failed")
    /\ state0 = 4
    /\ Len(posts) = 2
    /\ index = 0
    /\ saves = 1
    /\ stateFile = 1
====
